---- MODULE Spec2Model ----
(***************************************************************************)
(* Memory buffer source filter (libavfilter/buffersrc.c).                  *)
(*                                                                         *)
(* The model follows one buffer source context (BufferSourceContext) with  *)
(* its FIFO of frame pointers, the producer that submits frames through    *)
(* av_buffersrc_add_frame_flags and the downstream link that pulls them    *)
(* through request_frame / poll_frame / config_props.                      *)
(***************************************************************************)
EXTENDS Integers, Sequences, FiniteSets, TLC

(***************************************************************************)
(* Bounds of the model.                                                    *)
(***************************************************************************)
\* number of payload buffers the producer may allocate in one run
MaxBufs == 1
\* number of frames that may be written to the FIFO in one run
MaxEnqueued == 2
\* cap on nb_failed_requests (an unsigned counter in the code)
MaxFailed == 1
\* number of pulls made after a null submission once the queue is empty
MaxPullsAfterEof == 2

(***************************************************************************)
(* Return codes.                                                           *)
(***************************************************************************)
OK == 0
EINVAL == -22
ENOMEM == -12
EAGAIN == -11
AVERROR_EOF == -541478725
\* any negative result of the downstream filter, returned by ff_filter_frame
DOWNSTREAM_ERROR == -5

(***************************************************************************)
(* Flags of av_buffersrc_add_frame_flags.                                  *)
(***************************************************************************)
AV_BUFFERSRC_FLAG_NO_CHECK_FORMAT == "NO_CHECK_FORMAT"
AV_BUFFERSRC_FLAG_PUSH == "PUSH"
AV_BUFFERSRC_FLAG_KEEP_REF == "KEEP_REF"
AllFlags ==
    {AV_BUFFERSRC_FLAG_NO_CHECK_FORMAT, AV_BUFFERSRC_FLAG_PUSH,
     AV_BUFFERSRC_FLAG_KEEP_REF}

AVMEDIA_TYPE_VIDEO == "video"
AVMEDIA_TYPE_AUDIO == "audio"

(***************************************************************************)
(* Frames.  A frame carries the reference to its payload (buf, 0 when the  *)
(* frame holds none) and the properties the filter reads.                  *)
(***************************************************************************)
\* an AVFrame after av_frame_alloc / av_frame_unref / av_frame_move_ref(src)
EmptyFrame ==
    [buf |-> 0, width |-> 0, height |-> 0, format |-> -1,
     sample_rate |-> 0, channel_layout |-> 0, channels |-> 0]

\* number of bits set in a channel layout mask
RECURSIVE av_get_channel_layout_nb_channels(_)
av_get_channel_layout_nb_channels(layout) ==
    IF layout = 0 THEN 0
    ELSE (layout % 2) + av_get_channel_layout_nb_channels(layout \div 2)

av_frame_get_channels(frame) == frame.channels

\* properties of the frames the producer makes for a video stage
VideoFrameKinds ==
    { [width |-> 320, height |-> 240, format |-> 0,
       sample_rate |-> 0, channel_layout |-> 0, channels |-> 0],
      [width |-> 640, height |-> 480, format |-> 0,
       sample_rate |-> 0, channel_layout |-> 0, channels |-> 0],
      [width |-> 320, height |-> 240, format |-> 2,
       sample_rate |-> 0, channel_layout |-> 0, channels |-> 0],
      [width |-> 320, height |-> 240, format |-> 0,
       sample_rate |-> 0, channel_layout |-> 3, channels |-> 1] }

\* properties of the frames the producer makes for an audio stage
AudioFrameKinds ==
    { [width |-> 0, height |-> 0, format |-> 1,
       sample_rate |-> 48000, channel_layout |-> 3, channels |-> 2],
      [width |-> 0, height |-> 0, format |-> 1,
       sample_rate |-> 44100, channel_layout |-> 3, channels |-> 2],
      [width |-> 0, height |-> 0, format |-> 3,
       sample_rate |-> 48000, channel_layout |-> 3, channels |-> 2],
      [width |-> 0, height |-> 0, format |-> 1,
       sample_rate |-> 48000, channel_layout |-> 4, channels |-> 1],
      [width |-> 0, height |-> 0, format |-> 1,
       sample_rate |-> 48000, channel_layout |-> 0, channels |-> 2],
      [width |-> 0, height |-> 0, format |-> 1,
       sample_rate |-> 48000, channel_layout |-> 3, channels |-> 1] }

FrameKinds(type) ==
    IF type = AVMEDIA_TYPE_VIDEO THEN VideoFrameKinds ELSE AudioFrameKinds

\* a fresh frame of the given kind holding payload b
MakeFrame(kind, b) ==
    [buf |-> b, width |-> kind.width, height |-> kind.height,
     format |-> kind.format, sample_rate |-> kind.sample_rate,
     channel_layout |-> kind.channel_layout, channels |-> kind.channels]

(***************************************************************************)
(* Reference counting of payloads.                                         *)
(***************************************************************************)
\* av_frame_ref: one more reference to the payload of frame
RefAdd(refs, frame) ==
    IF frame.buf = 0 THEN refs ELSE [refs EXCEPT ![frame.buf] = @ + 1]

\* av_frame_free / av_frame_unref: one reference less
RefDrop(refs, frame) ==
    IF frame.buf = 0 THEN refs ELSE [refs EXCEPT ![frame.buf] = @ - 1]

VARIABLES
    s,               \* BufferSourceContext: parameters, counters, eof
    fifo,            \* s->fifo: the queued AVFrames, head first; each is
                     \* [id, frame], id numbering the AVFrames the filter
                     \* allocated and queued, in that order
    fifo_cap,        \* number of frame pointers the FIFO buffer can hold
    fifo_live,       \* s->fifo != NULL
    link,            \* ctx->outputs[0]
    caller,          \* the producer's AVFrame
    sink,            \* references the downstream filter holds, per payload
    refs,            \* live references per payload
    nbufs,           \* payloads allocated so far
    enqueued,        \* history: number of AVFrames written to the FIFO
    delivered,       \* history: ids of the AVFrames handed to
                     \* ff_filter_frame, in order
    eof_depth,       \* history: queue depth at the latest null submission
    pulls_since_eof, \* history: pulls since the latest null submission
    last             \* the latest call: operation, arguments, result

vars ==
    <<s, fifo, fifo_cap, fifo_live, link, caller, sink, refs, nbufs,
      enqueued, delivered, eof_depth, pulls_since_eof, last>>


(***************************************************************************)
(* Initialisation.                                                         *)
(***************************************************************************)
AV_SAMPLE_FMT_NONE == -1
AV_PIX_FMT_NONE == -1
InitialWarningLimit == 100

\* the context as allocated by the framework: all fields zero
ZeroContext ==
    [time_base |-> <<0, 0>>, frame_rate |-> <<0, 0>>,
     nb_failed_requests |-> 0, warning_limit |-> 0,
     w |-> 0, h |-> 0, pix_fmt |-> 0, pixel_aspect |-> <<0, 0>>,
     sample_rate |-> 0, sample_fmt |-> 0, channels |-> 0,
     channel_layout |-> 0, eof |-> FALSE]

\* init_video on the positional form W:H:pix_fmt:tb_num:tb_den:par_num:par_den
init_video(args) ==
    IF args.pix_fmt = AV_PIX_FMT_NONE
    THEN [ret |-> EINVAL, s |-> ZeroContext]
    ELSE [ret |-> OK,
          s |-> [ZeroContext EXCEPT !.w = args.w, !.h = args.h,
                                    !.pix_fmt = args.pix_fmt,
                                    !.time_base = args.time_base,
                                    !.pixel_aspect = args.pixel_aspect,
                                    !.warning_limit = InitialWarningLimit]]

\* init_audio on parsed key=value options; has_layout says whether a
\* channel_layout string was given, channel_layout is what it parses to
init_audio(args) ==
    LET n == av_get_channel_layout_nb_channels(args.channel_layout)
        base == [ZeroContext EXCEPT !.sample_fmt = args.sample_fmt,
                                    !.sample_rate = args.sample_rate,
                                    !.time_base = args.time_base,
                                    !.channels = args.channels]
        tb(c) == IF c.time_base[1] = 0
                 THEN [c EXCEPT !.time_base = <<1, c.sample_rate>>] ELSE c
        done(c) == [ret |-> OK,
                    s |-> [tb(c) EXCEPT !.warning_limit = InitialWarningLimit]]
        fail == [ret |-> EINVAL, s |-> ZeroContext]
    IN  IF args.sample_fmt = AV_SAMPLE_FMT_NONE THEN fail
        ELSE IF args.has_layout
        THEN IF args.channel_layout = 0 THEN fail
             ELSE IF args.channels # 0 /\ n # args.channels THEN fail
             ELSE done([base EXCEPT !.channel_layout = args.channel_layout,
                                    !.channels = n])
        ELSE IF args.channels = 0 THEN fail
        ELSE done(base)

VideoArgs ==
    { [w |-> 320, h |-> 240, pix_fmt |-> f, time_base |-> <<1, 25>>,
       pixel_aspect |-> <<1, 1>>] : f \in {0, AV_PIX_FMT_NONE} }

AudioArgs ==
    { [sample_fmt |-> 1, sample_rate |-> 48000, time_base |-> <<0, 1>>,
       channels |-> a[1], has_layout |-> a[2], channel_layout |-> a[3]] :
      a \in { <<2, FALSE, 0>>, <<0, TRUE, 3>>, <<2, TRUE, 3>>,
              <<2, TRUE, 4>>, <<0, FALSE, 0>> } }

\* the channel layout format negotiation chose for an audio link
NegotiatedLayout == 3

\* the output link before it is configured
InitialLink(type, layout) ==
    [type |-> type, w |-> 0, h |-> 0, sample_aspect_ratio |-> <<0, 1>>,
     time_base |-> <<0, 1>>, frame_rate |-> <<0, 1>>,
     channel_layout |-> layout,
     formats |-> <<>>, samplerates |-> <<>>, channel_layouts |-> <<>>]

\* the channel layout the link has when config_props is called: the one the
\* graph negotiated, or none
LinkLayouts(type) ==
    IF type = AVMEDIA_TYPE_VIDEO THEN {0} ELSE {0, NegotiatedLayout}

NoCall ==
    [op |-> "init", flags |-> {}, null |-> FALSE, ret |-> OK,
     requests |-> 0, log |-> "none", eof |-> FALSE]

Init ==
    /\ \E type \in {AVMEDIA_TYPE_VIDEO, AVMEDIA_TYPE_AUDIO} :
         \E r \in IF type = AVMEDIA_TYPE_VIDEO
                  THEN {init_video(a) : a \in VideoArgs}
                  ELSE {init_audio(a) : a \in AudioArgs} :
           /\ r.ret = OK
           /\ s = r.s
           /\ \E layout \in LinkLayouts(type) :
                link = InitialLink(type, layout)
    /\ fifo = <<>>
    /\ fifo_cap = 1
    /\ fifo_live = TRUE
    /\ caller = EmptyFrame
    /\ sink = [b \in 1..MaxBufs |-> 0]
    /\ refs = [b \in 1..MaxBufs |-> 0]
    /\ nbufs = 0
    /\ enqueued = 0
    /\ delivered = <<>>
    /\ eof_depth = -1
    /\ pulls_since_eof = 0
    /\ last = NoCall


(***************************************************************************)
(* The functions of buffersrc.c, on a record w of what they read and       *)
(* write: s, fifo, fifo_cap, refs, sink, enqueued, delivered, and two      *)
(* observations of the call: requests (calls of the output pad's           *)
(* request_frame) and log (the level of the message logged, if any).       *)
(***************************************************************************)
World ==
    [s |-> s, fifo |-> fifo, fifo_cap |-> fifo_cap, refs |-> refs,
     sink |-> sink, enqueued |-> enqueued, delivered |-> delivered,
     requests |-> 0, log |-> "none"]

\* ff_filter_frame(link, frame): the frame passes to the downstream filter,
\* which keeps it (ffret = 0) or frees it and reports an error (ffret < 0)
ff_filter_frame(w, entry, ffret) ==
    [ret |-> ffret,
     w |-> [w EXCEPT !.delivered = Append(@, entry.id),
                     !.sink = IF ffret = OK THEN RefAdd(@, entry.frame)
                              ELSE @,
                     !.refs = IF ffret = OK THEN @
                              ELSE RefDrop(@, entry.frame)]]

\* request_frame with the two tests of the empty branch swapped in effect:
\* end of stream is reported as soon as eof is set
request_frame_eof_first(w, ffret) ==
    IF w.s.eof THEN [ret |-> AVERROR_EOF, w |-> w]
    ELSE IF Len(w.fifo) = 0
    THEN [ret |-> EAGAIN,
          w |-> [w EXCEPT !.s.nb_failed_requests = @ + 1]]
    ELSE ff_filter_frame([w EXCEPT !.fifo = Tail(@)], Head(w.fifo), ffret)

\* request_frame reading the newest frame instead of the oldest
request_frame_lifo(w, ffret) ==
    IF Len(w.fifo) = 0
    THEN IF w.s.eof THEN [ret |-> AVERROR_EOF, w |-> w]
         ELSE [ret |-> EAGAIN,
               w |-> [w EXCEPT !.s.nb_failed_requests = @ + 1]]
    ELSE ff_filter_frame([w EXCEPT !.fifo = SubSeq(@, 1, Len(@) - 1)],
                         w.fifo[Len(w.fifo)], ffret)

\* request_frame counting the request as failed before it tests eof
request_frame_count_eof(w, ffret) ==
    IF Len(w.fifo) = 0
    THEN IF w.s.eof
         THEN [ret |-> AVERROR_EOF,
               w |-> [w EXCEPT !.s.nb_failed_requests = @ + 1]]
         ELSE [ret |-> EAGAIN,
               w |-> [w EXCEPT !.s.nb_failed_requests = @ + 1]]
    ELSE ff_filter_frame([w EXCEPT !.fifo = Tail(@)], Head(w.fifo), ffret)

\* request_frame handing the head downstream without removing it
request_frame_peek(w, ffret) ==
    IF Len(w.fifo) = 0
    THEN IF w.s.eof THEN [ret |-> AVERROR_EOF, w |-> w]
         ELSE [ret |-> EAGAIN,
               w |-> [w EXCEPT !.s.nb_failed_requests = @ + 1]]
    ELSE ff_filter_frame(w, Head(w.fifo), ffret)

\* request_frame without the eof test
request_frame_no_eof(w, ffret) ==
    IF Len(w.fifo) = 0
    THEN [ret |-> EAGAIN,
          w |-> [w EXCEPT !.s.nb_failed_requests = @ + 1]]
    ELSE ff_filter_frame([w EXCEPT !.fifo = Tail(@)], Head(w.fifo), ffret)

\* request_frame consuming the eof mark when it reports it
request_frame_clear_eof(w, ffret) ==
    IF Len(w.fifo) = 0
    THEN IF w.s.eof
         THEN [ret |-> AVERROR_EOF, w |-> [w EXCEPT !.s.eof = FALSE]]
         ELSE [ret |-> EAGAIN,
               w |-> [w EXCEPT !.s.nb_failed_requests = @ + 1]]
    ELSE ff_filter_frame([w EXCEPT !.fifo = Tail(@)], Head(w.fifo), ffret)

request_frame(w, ffret) ==
    IF Len(w.fifo) = 0
    THEN IF w.s.eof THEN [ret |-> AVERROR_EOF, w |-> w]
         ELSE [ret |-> EAGAIN,
               w |-> [w EXCEPT !.s.nb_failed_requests = @ + 1]]
    ELSE ff_filter_frame([w EXCEPT !.fifo = Tail(@)], Head(w.fifo), ffret)

\* poll_frame reporting the end of the stream as soon as eof is set
poll_frame_eof_first(w) ==
    LET size == Len(w.fifo)
    IN  IF w.s.eof THEN AVERROR_EOF ELSE size

poll_frame(w) ==
    LET size == Len(w.fifo)
    IN  IF size = 0 /\ w.s.eof THEN AVERROR_EOF ELSE size

\* TRUE when the macro finds a change (it then logs at level INFO)
CHECK_VIDEO_PARAM_CHANGE(c, width, height, format) ==
    c.w # width \/ c.h # height \/ c.pix_fmt # format

\* the audio test without the sample rate
CHECK_AUDIO_PARAM_CHANGE_no_rate(c, srate, ch_layout, format) ==
    c.sample_fmt # format \/ c.channel_layout # ch_layout

\* TRUE when the macro finds a change (it then logs an error and returns
\* AVERROR(EINVAL) from the function that uses it)
CHECK_AUDIO_PARAM_CHANGE(c, srate, ch_layout, format) ==
    c.sample_fmt # format \/ c.sample_rate # srate \/
    c.channel_layout # ch_layout

\* the video case rejecting a change as the audio case does
check_format_video_strict(c, type, frame, flags) ==
    IF AV_BUFFERSRC_FLAG_NO_CHECK_FORMAT \in flags
    THEN [ret |-> OK, log |-> "none"]
    ELSE IF type = AVMEDIA_TYPE_VIDEO
    THEN IF CHECK_VIDEO_PARAM_CHANGE(c, frame.width, frame.height,
                                     frame.format)
         THEN [ret |-> EINVAL, log |-> "error"]
         ELSE [ret |-> OK, log |-> "none"]
    ELSE IF type = AVMEDIA_TYPE_AUDIO
    THEN IF CHECK_AUDIO_PARAM_CHANGE(c, frame.sample_rate,
                                     frame.channel_layout, frame.format)
         THEN [ret |-> EINVAL, log |-> "error"]
         ELSE [ret |-> OK, log |-> "none"]
    ELSE [ret |-> EINVAL, log |-> "none"]

\* the audio case logging a change and going on as the video case does
check_format_audio_lenient(c, type, frame, flags) ==
    IF AV_BUFFERSRC_FLAG_NO_CHECK_FORMAT \in flags
    THEN [ret |-> OK, log |-> "none"]
    ELSE IF type = AVMEDIA_TYPE_VIDEO
    THEN [ret |-> OK,
          log |-> IF CHECK_VIDEO_PARAM_CHANGE(c, frame.width, frame.height,
                                              frame.format)
                  THEN "info" ELSE "none"]
    ELSE IF type = AVMEDIA_TYPE_AUDIO
    THEN [ret |-> OK,
          log |-> IF CHECK_AUDIO_PARAM_CHANGE(c, frame.sample_rate,
                                              frame.channel_layout,
                                              frame.format)
                  THEN "info" ELSE "none"]
    ELSE [ret |-> EINVAL, log |-> "none"]

\* the format check of av_buffersrc_add_frame_internal: its result and the
\* level of the message it logs
check_format(c, type, frame, flags) ==
    IF AV_BUFFERSRC_FLAG_NO_CHECK_FORMAT \in flags
    THEN [ret |-> OK, log |-> "none"]
    ELSE IF type = AVMEDIA_TYPE_VIDEO
    THEN [ret |-> OK,
          log |-> IF CHECK_VIDEO_PARAM_CHANGE(c, frame.width, frame.height,
                                              frame.format)
                  THEN "info" ELSE "none"]
    ELSE IF type = AVMEDIA_TYPE_AUDIO
    THEN IF CHECK_AUDIO_PARAM_CHANGE(c, frame.sample_rate,
                                     frame.channel_layout, frame.format)
         THEN [ret |-> EINVAL, log |-> "error"]
         ELSE [ret |-> OK, log |-> "none"]
    ELSE [ret |-> EINVAL, log |-> "none"]

\* the tail of av_buffersrc_add_frame_internal making the request of PUSH
\* before it writes the frame to the FIFO
enqueue_frame_request_first(w, frame, flags, env) ==
    IF Len(w.fifo) = w.fifo_cap /\ ~env.realloc
    THEN [ret |-> ENOMEM, w |-> w, frame |-> frame]
    ELSE
      LET w1 == IF Len(w.fifo) = w.fifo_cap
                THEN [w EXCEPT !.fifo_cap = Len(w.fifo) + 1] ELSE w
      IN  IF ~env.alloc_copy
          THEN [ret |-> ENOMEM, w |-> w1, frame |-> frame]
          ELSE IF ~env.write
          THEN [ret |-> ENOMEM, w |-> w1, frame |-> frame]
          ELSE
            LET r == IF AV_BUFFERSRC_FLAG_PUSH \in flags
                     THEN request_frame(
                              [w1 EXCEPT !.requests = @ + 1], env.ff)
                     ELSE [ret |-> OK, w |-> w1]
            IN  [ret |-> IF r.ret < 0 THEN r.ret ELSE OK,
                 w |-> [r.w EXCEPT
                          !.fifo = Append(@, [id |-> w.enqueued + 1,
                                              frame |-> frame]),
                          !.enqueued = @ + 1],
                 frame |-> EmptyFrame]

\* the tail of av_buffersrc_add_frame_internal dropping the result of the
\* request made under PUSH
enqueue_frame_ignore_request(w, frame, flags, env) ==
    IF Len(w.fifo) = w.fifo_cap /\ ~env.realloc
    THEN [ret |-> ENOMEM, w |-> w, frame |-> frame]
    ELSE
      LET w1 == IF Len(w.fifo) = w.fifo_cap
                THEN [w EXCEPT !.fifo_cap = Len(w.fifo) + 1] ELSE w
      IN  IF ~env.alloc_copy
          THEN [ret |-> ENOMEM, w |-> w1, frame |-> frame]
          ELSE IF ~env.write
          THEN [ret |-> ENOMEM, w |-> w1, frame |-> frame]
          ELSE
            LET w2 == [w1 EXCEPT
                         !.fifo = Append(@, [id |-> w.enqueued + 1,
                                             frame |-> frame]),
                         !.enqueued = @ + 1]
            IN  IF AV_BUFFERSRC_FLAG_PUSH \in flags
                THEN LET r == request_frame(
                                  [w2 EXCEPT !.requests = @ + 1], env.ff)
                     IN  [ret |-> OK, w |-> r.w, frame |-> EmptyFrame]
                ELSE [ret |-> OK, w |-> w2, frame |-> EmptyFrame]

\* the tail of av_buffersrc_add_frame_internal: make room, move the frame
\* into a new AVFrame, write its pointer to the FIFO, and with PUSH call the
\* output pad's request_frame.  env says which of the calls that can fail do
\* fail and what the downstream filter returns.
enqueue_frame(w, frame, flags, env) ==
    IF Len(w.fifo) = w.fifo_cap /\ ~env.realloc
    THEN [ret |-> ENOMEM, w |-> w, frame |-> frame]
    ELSE
      LET w1 == IF Len(w.fifo) = w.fifo_cap
                THEN [w EXCEPT !.fifo_cap = Len(w.fifo) + 1] ELSE w
      IN  IF ~env.alloc_copy
          THEN [ret |-> ENOMEM, w |-> w1, frame |-> frame]
          ELSE IF ~env.write
          THEN [ret |-> ENOMEM, w |-> w1, frame |-> frame]
          ELSE
            LET w2 == [w1 EXCEPT
                         !.fifo = Append(@, [id |-> w.enqueued + 1,
                                             frame |-> frame]),
                         !.enqueued = @ + 1]
            IN  IF AV_BUFFERSRC_FLAG_PUSH \in flags
                THEN LET r == request_frame(
                                  [w2 EXCEPT !.requests = @ + 1], env.ff)
                     IN  [ret |-> IF r.ret < 0 THEN r.ret ELSE OK,
                          w |-> r.w, frame |-> EmptyFrame]
                ELSE [ret |-> OK, w |-> w2, frame |-> EmptyFrame]


\* av_buffersrc_add_frame_internal testing eof before it tests the frame
add_frame_internal_eof_first(w, frame, null, flags, type, env) ==
    IF w.s.eof
    THEN [ret |-> EINVAL, w |-> w, frame |-> frame]
    ELSE IF null
    THEN [ret |-> OK, w |-> [w EXCEPT !.s.eof = TRUE], frame |-> frame]
    ELSE
      LET chk == check_format(w.s, type, frame, flags)
          w1 == [w EXCEPT !.log = chk.log]
      IN  IF chk.ret # OK
          THEN [ret |-> chk.ret, w |-> w1, frame |-> frame]
          ELSE enqueue_frame(w1, frame, flags, env)

\* av_buffersrc_add_frame_internal without the test of eof
add_frame_internal_no_eof_test(w, frame, null, flags, type, env) ==
    IF null
    THEN [ret |-> OK, w |-> [w EXCEPT !.s.eof = TRUE], frame |-> frame]
    ELSE
      LET chk == check_format(w.s, type, frame, flags)
          w1 == [w EXCEPT !.log = chk.log]
      IN  IF chk.ret # OK
          THEN [ret |-> chk.ret, w |-> w1, frame |-> frame]
          ELSE enqueue_frame(w1, frame, flags, env)

av_buffersrc_add_frame_internal(w, frame, null, flags, type, env) ==
    IF null
    THEN [ret |-> OK, w |-> [w EXCEPT !.s.eof = TRUE], frame |-> frame]
    ELSE IF w.s.eof
    THEN [ret |-> EINVAL, w |-> w, frame |-> frame]
    ELSE
      LET chk == check_format(w.s, type, frame, flags)
          w1 == [w EXCEPT !.log = chk.log]
      IN  IF chk.ret # OK
          THEN [ret |-> chk.ret, w |-> w1, frame |-> frame]
          ELSE enqueue_frame(w1, frame, flags, env)

\* av_buffersrc_add_frame_flags leaving out the test of the channel layout
\* when NO_CHECK_FORMAT is set
add_frame_flags_layout_unchecked(w, frame, null, flags, type, env) ==
    IF /\ ~null
       /\ AV_BUFFERSRC_FLAG_NO_CHECK_FORMAT \notin flags
       /\ frame.channel_layout # 0
       /\ av_get_channel_layout_nb_channels(frame.channel_layout)
            # av_frame_get_channels(frame)
    THEN [ret |-> EINVAL, w |-> [w EXCEPT !.log = "error"], frame |-> frame]
    ELSE IF AV_BUFFERSRC_FLAG_KEEP_REF \notin flags \/ null
    THEN av_buffersrc_add_frame_internal(w, frame, null, flags, type, env)
    ELSE IF ~env.alloc_ref
    THEN [ret |-> ENOMEM, w |-> w, frame |-> frame]
    ELSE IF ~env.ref
    THEN [ret |-> ENOMEM, w |-> w, frame |-> frame]
    ELSE
      LET r == av_buffersrc_add_frame_internal(
                   [w EXCEPT !.refs = RefAdd(@, frame)],
                   frame, FALSE, flags, type, env)
      IN  [ret |-> r.ret,
           w |-> [r.w EXCEPT !.refs = RefDrop(@, r.frame)],
           frame |-> frame]

\* av_buffersrc_add_frame_flags returning as soon as
\* av_buffersrc_add_frame_internal fails, before it frees its copy
av_buffersrc_add_frame_flags_leak(w, frame, null, flags, type, env) ==
    IF /\ ~null
       /\ frame.channel_layout # 0
       /\ av_get_channel_layout_nb_channels(frame.channel_layout)
            # av_frame_get_channels(frame)
    THEN [ret |-> EINVAL, w |-> [w EXCEPT !.log = "error"], frame |-> frame]
    ELSE IF AV_BUFFERSRC_FLAG_KEEP_REF \notin flags \/ null
    THEN av_buffersrc_add_frame_internal(w, frame, null, flags, type, env)
    ELSE IF ~env.alloc_ref
    THEN [ret |-> ENOMEM, w |-> w, frame |-> frame]
    ELSE IF ~env.ref
    THEN [ret |-> ENOMEM, w |-> w, frame |-> frame]
    ELSE
      LET r == av_buffersrc_add_frame_internal(
                   [w EXCEPT !.refs = RefAdd(@, frame)],
                   frame, FALSE, flags, type, env)
      IN  [ret |-> r.ret, w |-> r.w, frame |-> frame]

\* av_buffersrc_add_frame_flags handing the caller's frame itself to
\* av_buffersrc_add_frame_internal whatever the flags
av_buffersrc_add_frame_flags_no_copy(w, frame, null, flags, type, env) ==
    IF /\ ~null
       /\ frame.channel_layout # 0
       /\ av_get_channel_layout_nb_channels(frame.channel_layout)
            # av_frame_get_channels(frame)
    THEN [ret |-> EINVAL, w |-> [w EXCEPT !.log = "error"], frame |-> frame]
    ELSE av_buffersrc_add_frame_internal(w, frame, null, flags, type, env)

\* frame is the caller's AVFrame (null: the caller passed NULL); the result
\* holds the caller's AVFrame as the call leaves it
av_buffersrc_add_frame_flags(w, frame, null, flags, type, env) ==
    IF /\ ~null
       /\ frame.channel_layout # 0
       /\ av_get_channel_layout_nb_channels(frame.channel_layout)
            # av_frame_get_channels(frame)
    THEN [ret |-> EINVAL, w |-> [w EXCEPT !.log = "error"], frame |-> frame]
    ELSE IF AV_BUFFERSRC_FLAG_KEEP_REF \notin flags \/ null
    THEN av_buffersrc_add_frame_internal(w, frame, null, flags, type, env)
    ELSE IF ~env.alloc_ref
    THEN [ret |-> ENOMEM, w |-> w, frame |-> frame]
    ELSE IF ~env.ref
    THEN [ret |-> ENOMEM, w |-> w, frame |-> frame]
    ELSE
      LET r == av_buffersrc_add_frame_internal(
                   [w EXCEPT !.refs = RefAdd(@, frame)],
                   frame, FALSE, flags, type, env)
      IN  [ret |-> r.ret,
           w |-> [r.w EXCEPT !.refs = RefDrop(@, r.frame)],
           frame |-> frame]

av_buffersrc_write_frame(w, frame, null, type, env) ==
    av_buffersrc_add_frame_flags(w, frame, null,
                                 {AV_BUFFERSRC_FLAG_KEEP_REF}, type, env)

av_buffersrc_add_frame(w, frame, null, type, env) ==
    av_buffersrc_add_frame_flags(w, frame, null, {}, type, env)

av_buffersrc_get_nb_failed_requests(c) == c.nb_failed_requests

\* FF_COUNT2LAYOUT(c): a channel count in the place of a layout, marked by
\* the top bit of the word (bit 63 in the code, bit 30 here)
LAYOUT_COUNT_BIT == 1073741824

FF_COUNT2LAYOUT(c) == LAYOUT_COUNT_BIT + c

\* query_formats: the lists the filter offers on its output link
query_formats(lnk, c) ==
    IF lnk.type = AVMEDIA_TYPE_VIDEO
    THEN [ret |-> OK, link |-> [lnk EXCEPT !.formats = <<c.pix_fmt>>]]
    ELSE IF lnk.type = AVMEDIA_TYPE_AUDIO
    THEN [ret |-> OK,
          link |-> [lnk EXCEPT
                      !.formats = <<c.sample_fmt>>,
                      !.samplerates = <<c.sample_rate>>,
                      !.channel_layouts =
                          <<IF c.channel_layout # 0 THEN c.channel_layout
                            ELSE FF_COUNT2LAYOUT(c.channels)>>]]
    ELSE [ret |-> EINVAL, link |-> lnk]

\* config_props taking the link's channel layout whether or not the filter
\* has one
config_props_always_inherit(lnk, c) ==
    IF lnk.type = AVMEDIA_TYPE_VIDEO
    THEN [ret |-> OK, s |-> c,
          link |-> [lnk EXCEPT !.w = c.w, !.h = c.h,
                               !.sample_aspect_ratio = c.pixel_aspect,
                               !.time_base = c.time_base,
                               !.frame_rate = c.frame_rate]]
    ELSE IF lnk.type = AVMEDIA_TYPE_AUDIO
    THEN [ret |-> OK,
          s |-> [c EXCEPT !.channel_layout = lnk.channel_layout],
          link |-> [lnk EXCEPT !.time_base = c.time_base,
                               !.frame_rate = c.frame_rate]]
    ELSE [ret |-> EINVAL, s |-> c, link |-> lnk]

\* config_props with an else branch that gives the link the filter's channel
\* layout
config_props_link_inherits(lnk, c) ==
    IF lnk.type = AVMEDIA_TYPE_VIDEO
    THEN [ret |-> OK, s |-> c,
          link |-> [lnk EXCEPT !.w = c.w, !.h = c.h,
                               !.sample_aspect_ratio = c.pixel_aspect,
                               !.time_base = c.time_base,
                               !.frame_rate = c.frame_rate]]
    ELSE IF lnk.type = AVMEDIA_TYPE_AUDIO
    THEN [ret |-> OK,
          s |-> IF c.channel_layout = 0
                THEN [c EXCEPT !.channel_layout = lnk.channel_layout] ELSE c,
          link |-> [lnk EXCEPT !.time_base = c.time_base,
                               !.frame_rate = c.frame_rate,
                               !.channel_layout =
                                   IF c.channel_layout = 0 THEN @
                                   ELSE c.channel_layout]]
    ELSE [ret |-> EINVAL, s |-> c, link |-> lnk]

config_props(lnk, c) ==
    IF lnk.type = AVMEDIA_TYPE_VIDEO
    THEN [ret |-> OK, s |-> c,
          link |-> [lnk EXCEPT !.w = c.w, !.h = c.h,
                               !.sample_aspect_ratio = c.pixel_aspect,
                               !.time_base = c.time_base,
                               !.frame_rate = c.frame_rate]]
    ELSE IF lnk.type = AVMEDIA_TYPE_AUDIO
    THEN [ret |-> OK,
          s |-> IF c.channel_layout = 0
                THEN [c EXCEPT !.channel_layout = lnk.channel_layout] ELSE c,
          link |-> [lnk EXCEPT !.time_base = c.time_base,
                               !.frame_rate = c.frame_rate]]
    ELSE [ret |-> EINVAL, s |-> c, link |-> lnk]

\* uninit with an if in the place of its while: only the head is freed
DrainRefs_head_only(r, q) ==
    IF q = <<>> THEN r ELSE RefDrop(r, Head(q).frame)

\* uninit: every queued frame is read and freed, then the FIFO is freed
RECURSIVE DrainRefs(_, _)
DrainRefs(r, q) ==
    IF q = <<>> THEN r ELSE DrainRefs(RefDrop(r, Head(q).frame), Tail(q))

(***************************************************************************)
(* Actions.                                                                *)
(***************************************************************************)
\* which of the calls that can fail do fail, and the downstream's result
\* the calls a submit with these flags makes that can fail
Faults(flags) ==
    {"none", "realloc", "alloc_copy", "write"} \cup
    (IF AV_BUFFERSRC_FLAG_KEEP_REF \in flags
     THEN {"alloc_ref", "ref"} ELSE {})

\* what ff_filter_frame can return to a submit with these flags
Downstream(flags) ==
    IF AV_BUFFERSRC_FLAG_PUSH \in flags
    THEN {OK, DOWNSTREAM_ERROR} ELSE {OK}

\* the first call that fails, if any (the function returns there, so later
\* ones are not reached), and the downstream's result; a submit of NULL
\* makes none of these calls
Envs(null, flags) ==
    { [alloc_ref |-> f # "alloc_ref", ref |-> f # "ref",
       realloc |-> f # "realloc", alloc_copy |-> f # "alloc_copy",
       write |-> f # "write", ff |-> r] :
      f \in IF null THEN {"none"} ELSE Faults(flags),
      r \in IF null THEN {OK} ELSE Downstream(flags) }

\* the record of a call; eof is the value s->eof had when it was made
Call(op, flags, null, ret, requests, log) ==
    [op |-> op, flags |-> flags, null |-> null, ret |-> ret,
     requests |-> requests, log |-> log, eof |-> s.eof]

\* the state a call of the producer API leaves
Returned(r, null, flags) ==
    /\ s' = r.w.s
    /\ fifo' = r.w.fifo
    /\ fifo_cap' = r.w.fifo_cap
    /\ refs' = r.w.refs
    /\ sink' = r.w.sink
    /\ enqueued' = r.w.enqueued
    /\ delivered' = r.w.delivered
    /\ caller' = IF null THEN caller ELSE r.frame
    /\ eof_depth' = IF null THEN Len(fifo) ELSE eof_depth
    /\ pulls_since_eof' = IF null THEN 0 ELSE pulls_since_eof
    /\ last' = Call("submit", flags, null, r.ret, r.w.requests, r.w.log)
    /\ UNCHANGED <<fifo_live, link, nbufs>>

CanSubmit(null) ==
    /\ fifo_live
    /\ ~null => caller.buf # 0 /\ enqueued < MaxEnqueued

\* av_buffersrc_add_frame_flags(ctx, frame, flags), for the flags the two
\* wrappers below do not pass
Submit ==
    \E null \in BOOLEAN,
       flags \in (SUBSET AllFlags) \ {{}, {AV_BUFFERSRC_FLAG_KEEP_REF}} :
      /\ CanSubmit(null)
      /\ \E r \in { av_buffersrc_add_frame_flags(World, caller, null, flags,
                                                  link.type, env) :
                     env \in Envs(null, flags) } :
           Returned(r, null, flags)

\* av_buffersrc_write_frame(ctx, frame)
WriteFrame ==
    \E null \in BOOLEAN :
      /\ CanSubmit(null)
      /\ \E r \in { av_buffersrc_write_frame(World, caller, null, link.type,
                                              env) :
                     env \in Envs(null, {AV_BUFFERSRC_FLAG_KEEP_REF}) } :
           Returned(r, null, {AV_BUFFERSRC_FLAG_KEEP_REF})

\* av_buffersrc_add_frame(ctx, frame)
AddFrame ==
    \E null \in BOOLEAN :
      /\ CanSubmit(null)
      /\ \E r \in { av_buffersrc_add_frame(World, caller, null, link.type,
                                            env) : env \in Envs(null, {}) } :
           Returned(r, null, {})

\* the downstream filter calls request_frame on the link
Pull ==
    \E ffret \in {OK, DOWNSTREAM_ERROR} :
      /\ fifo_live
      /\ (fifo = <<>> /\ ~s.eof) => s.nb_failed_requests < MaxFailed
      /\ (fifo = <<>> /\ s.eof) =>
             pulls_since_eof < eof_depth + MaxPullsAfterEof
      /\ LET r == request_frame(World, ffret)
         IN  /\ s' = r.w.s
             /\ fifo' = r.w.fifo
             /\ refs' = r.w.refs
             /\ sink' = r.w.sink
             /\ delivered' = r.w.delivered
             /\ last' = Call("pull", {}, FALSE, r.ret, 1, "none")
      /\ pulls_since_eof' = IF s.eof THEN pulls_since_eof + 1 ELSE 0
      /\ UNCHANGED <<fifo_cap, fifo_live, link, caller, nbufs, enqueued,
                     eof_depth>>

\* the downstream filter calls poll_frame on the link
Poll ==
    /\ fifo_live
    /\ last' = Call("poll", {}, FALSE, poll_frame(World), 0, "none")
    /\ UNCHANGED <<s, fifo, fifo_cap, fifo_live, link, caller, sink, refs,
                   nbufs, enqueued, delivered, eof_depth, pulls_since_eof>>

\* the graph asks the filter for the formats of its output
QueryFormats ==
    /\ fifo_live
    /\ LET r == query_formats(link, s)
       IN  /\ link' = r.link
           /\ last' = Call("query_formats", {}, FALSE, r.ret, 0, "none")
    /\ UNCHANGED <<s, fifo, fifo_cap, fifo_live, caller, sink, refs, nbufs,
                   enqueued, delivered, eof_depth, pulls_since_eof>>

\* the graph configures the output link
ConfigProps ==
    /\ fifo_live
    /\ LET r == config_props(link, s)
       IN  /\ s' = r.s
           /\ link' = r.link
           /\ last' = Call("config_props", {}, FALSE, r.ret, 0, "none")
    /\ UNCHANGED <<fifo, fifo_cap, fifo_live, caller, sink, refs, nbufs,
                   enqueued, delivered, eof_depth, pulls_since_eof>>

\* uninit(ctx)
Uninit ==
    /\ fifo_live
    /\ refs' = DrainRefs(refs, fifo)
    /\ fifo' = <<>>
    /\ fifo_cap' = 0
    /\ fifo_live' = FALSE
    /\ last' = Call("uninit", {}, FALSE, OK, 0, "none")
    /\ UNCHANGED <<s, link, caller, sink, nbufs, enqueued, delivered,
                   eof_depth, pulls_since_eof>>

\* the producer fills its empty AVFrame with a new payload
NewFrame ==
    \E kind \in FrameKinds(link.type) :
      /\ caller.buf = 0
      /\ nbufs < MaxBufs
      /\ nbufs' = nbufs + 1
      /\ caller' = MakeFrame(kind, nbufs + 1)
      /\ refs' = [refs EXCEPT ![nbufs + 1] = 1]
      /\ last' = Call("env", {}, FALSE, OK, 0, "none")
      /\ UNCHANGED <<s, fifo, fifo_cap, fifo_live, link, sink, enqueued,
                     delivered, eof_depth, pulls_since_eof>>

\* the producer unreferences its AVFrame
ProducerUnref ==
    /\ caller.buf # 0
    /\ refs' = RefDrop(refs, caller)
    /\ caller' = EmptyFrame
    /\ last' = Call("env", {}, FALSE, OK, 0, "none")
    /\ UNCHANGED <<s, fifo, fifo_cap, fifo_live, link, sink, nbufs, enqueued,
                   delivered, eof_depth, pulls_since_eof>>

\* the downstream filter frees a frame it holds
ConsumerFree ==
    \E b \in 1..MaxBufs :
    /\ sink[b] > 0
    /\ refs' = [refs EXCEPT ![b] = @ - 1]
    /\ sink' = [sink EXCEPT ![b] = @ - 1]
    /\ last' = Call("env", {}, FALSE, OK, 0, "none")
    /\ UNCHANGED <<s, fifo, fifo_cap, fifo_live, link, caller, nbufs,
                   enqueued, delivered, eof_depth, pulls_since_eof>>

Next ==
    \/ Submit
    \/ WriteFrame
    \/ AddFrame
    \/ Pull
    \/ Poll
    \/ QueryFormats
    \/ ConfigProps
    \/ Uninit
    \/ NewFrame
    \/ ProducerUnref
    \/ ConsumerFree

Spec == Init /\ [][Next]_vars


(***************************************************************************)
(* Properties.  In an action formula the unprimed variables are the state  *)
(* a call starts from, the primed ones the state it returns in, and last'  *)
(* says which call it was.                                                 *)
(***************************************************************************)
FifoIds == [i \in 1..Len(fifo) |-> fifo[i].id]

\* C1: the AVFrames handed downstream are the AVFrames written to the FIFO,
\* in the order they were written: the i-th frame handed to ff_filter_frame
\* is the i-th frame enqueued, and until the filter is torn down the frames
\* still queued are the following ones, in order.
C1_FifoOrder ==
    /\ Len(delivered) <= enqueued
    /\ delivered = [i \in 1..Len(delivered) |-> i]
    /\ fifo_live => delivered \o FifoIds = [i \in 1..enqueued |-> i]

\* two frames were enqueued and both were handed downstream
C1_Witness ==
    /\ enqueued = 2
    /\ Len(delivered) = 2
    /\ last.op = "pull"

\* C2: a pull removes and hands downstream the head of a non-empty queue
\* (also when eof is set) and then returns what the downstream returned;
\* on an empty queue it returns AVERROR_EOF and changes nothing when eof is
\* set, and otherwise returns EAGAIN and increments nb_failed_requests.
C2_PullOutcomes ==
    [][ last'.op = "pull" =>
          IF fifo # <<>>
          THEN /\ fifo' = Tail(fifo)
               /\ delivered' = Append(delivered, Head(fifo).id)
               /\ last'.ret \in {OK, DOWNSTREAM_ERROR}
               /\ last'.ret = OK => sink' = RefAdd(sink, Head(fifo).frame)
               /\ s' = s
          ELSE IF s.eof
          THEN /\ last'.ret = AVERROR_EOF
               /\ UNCHANGED <<s, fifo, fifo_cap, sink, refs, delivered,
                              enqueued, caller, link>>
          ELSE /\ last'.ret = EAGAIN
               /\ s' = [s EXCEPT !.nb_failed_requests = @ + 1]
               /\ UNCHANGED <<fifo, sink, refs, delivered>> ]_vars

\* a pull delivered a frame although eof was already set
C2_Witness ==
    /\ last.op = "pull"
    /\ last.ret = OK
    /\ s.eof
    /\ delivered # <<>>

\* C3: when a pull returns AVERROR_EOF the queue is empty and every frame
\* that was enqueued has been handed downstream.
C3_EofAfterDrain ==
    (last.op = "pull" /\ last.ret = AVERROR_EOF) =>
        /\ fifo = <<>>
        /\ Len(delivered) = enqueued

\* end of stream is observed after the two frames queued at the null
\* submission have been pulled
C3_Witness ==
    /\ last.op = "pull"
    /\ last.ret = AVERROR_EOF
    /\ eof_depth = 2
    /\ Len(delivered) = 2

\* C4 as stated: counting the pulls after a null submission made at queue
\* depth k from 1, the k-th pull and every later one return AVERROR_EOF.
C4_KthPullIsEof ==
    (last.op = "pull" /\ s.eof /\ pulls_since_eof >= 1
        /\ pulls_since_eof >= eof_depth) =>
        last.ret = AVERROR_EOF

\* C4 (amended): after a null submission made at queue depth k, each of the
\* first k pulls hands a queued frame downstream, and the (k+1)-th pull and
\* every later one return AVERROR_EOF.
C4_EofAfterKPulls ==
    (last.op = "pull" /\ s.eof) =>
        IF pulls_since_eof > eof_depth
        THEN last.ret = AVERROR_EOF
        ELSE /\ last.ret \in {OK, DOWNSTREAM_ERROR}
             /\ Len(fifo) = eof_depth - pulls_since_eof

\* the third pull after a null submission at depth 2 returned AVERROR_EOF
C4_Witness ==
    /\ last.op = "pull"
    /\ last.ret = AVERROR_EOF
    /\ eof_depth = 2
    /\ pulls_since_eof = 3


KeepRefFailures(flags) ==
    IF AV_BUFFERSRC_FLAG_KEEP_REF \in flags THEN {ENOMEM} ELSE {}

\* C5 as stated: every submit of a frame made when eof is set returns
\* AVERROR(EINVAL).
C5_EinvalAfterEof ==
    (last.op = "submit" /\ ~last.null /\ s.eof) => last.ret = EINVAL

\* C5 (amended): every submit of a frame made when eof is set fails, with
\* AVERROR(EINVAL), or with AVERROR(ENOMEM) when KEEP_REF is set and the
\* reference for the queue cannot be made; it enqueues nothing, hands
\* nothing downstream and does not call the output pad's request_frame.
C5_RejectedAfterEof ==
    [][ (last'.op = "submit" /\ ~last'.null /\ s.eof) =>
          /\ last'.ret \in {EINVAL} \cup KeepRefFailures(last'.flags)
          /\ last'.requests = 0
          /\ UNCHANGED <<s, fifo, enqueued, delivered, sink, refs, caller>>
      ]_vars

\* a submit with PUSH and without KEEP_REF was rejected after eof
C5_Witness ==
    /\ last.op = "submit"
    /\ ~last.null
    /\ s.eof
    /\ last.ret = EINVAL
    /\ last.flags = {AV_BUFFERSRC_FLAG_PUSH, AV_BUFFERSRC_FLAG_NO_CHECK_FORMAT}
    /\ fifo # <<>>

\* C6: eof, once set, stays set; it becomes set only in a submit of NULL;
\* a submit that fails leaves it as it was.
C6_EofMonotonic ==
    [][ /\ s.eof => s'.eof
        /\ (~s.eof /\ s'.eof) => (last'.op = "submit" /\ last'.null)
        /\ (last'.op = "submit" /\ last'.ret # OK) => s'.eof = s.eof
      ]_vars

\* eof is still set after a pull that reported it and a submit that failed
C6_Witness ==
    /\ s.eof
    /\ last.op = "submit"
    /\ ~last.null
    /\ last.ret # OK
    /\ pulls_since_eof > eof_depth

\* C7: nb_failed_requests grows by one in a pull that returns EAGAIN, which
\* is what a pull on an empty queue without eof returns, and no other call
\* changes it.
C7_FailedRequests ==
    [][ /\ av_buffersrc_get_nb_failed_requests(s') =
             av_buffersrc_get_nb_failed_requests(s) +
             (IF last'.op = "pull" /\ last'.ret = EAGAIN THEN 1 ELSE 0)
        /\ (last'.op = "pull" /\ fifo = <<>> /\ ~s.eof) => last'.ret = EAGAIN
      ]_vars

\* the counter kept its value through a later successful submit with PUSH
C7_Witness ==
    /\ av_buffersrc_get_nb_failed_requests(s) = 1
    /\ last.op = "submit"
    /\ last.ret = OK
    /\ AV_BUFFERSRC_FLAG_PUSH \in last.flags
    /\ ~last.null


\* the producer's frame is one that av_buffersrc_add_frame_flags tests
\* against the parameters of the filter: its channel layout, when set,
\* agrees with its channel count
LayoutConsistent(frame) ==
    \/ frame.channel_layout = 0
    \/ av_get_channel_layout_nb_channels(frame.channel_layout)
         = av_frame_get_channels(frame)

\* a call that submitted the producer's frame with the format check on
CheckedSubmit ==
    /\ last'.op = "submit"
    /\ ~last'.null
    /\ AV_BUFFERSRC_FLAG_NO_CHECK_FORMAT \notin last'.flags

AudioMismatch ==
    /\ link.type = AVMEDIA_TYPE_AUDIO
    /\ \/ caller.format # s.sample_fmt
       \/ caller.sample_rate # s.sample_rate
       \/ caller.channel_layout # s.channel_layout

VideoMismatch ==
    /\ link.type = AVMEDIA_TYPE_VIDEO
    /\ \/ caller.width # s.w
       \/ caller.height # s.h
       \/ caller.format # s.pix_fmt

\* C8 as stated: on an audio filter a submit with the format check on, of a
\* frame whose sample format, sample rate or channel layout differs from the
\* filter's, returns AVERROR(EINVAL), with and without KEEP_REF and PUSH.
C8_AudioMismatchEinval ==
    [][ (CheckedSubmit /\ AudioMismatch) => last'.ret = EINVAL ]_vars

\* C8 (amended): on an audio filter a submit with the format check on, of a
\* frame whose sample format, sample rate or channel layout differs from the
\* filter's, fails with AVERROR(EINVAL), or with AVERROR(ENOMEM) when
\* KEEP_REF is set and the reference for the queue cannot be made; the
\* queue, eof and nb_failed_requests are unchanged, nothing is handed
\* downstream, and the producer keeps its frame.
C8_AudioMismatchRejected ==
    [][ (CheckedSubmit /\ AudioMismatch) =>
          /\ last'.ret \in {EINVAL} \cup KeepRefFailures(last'.flags)
          /\ last'.requests = 0
          /\ UNCHANGED <<s, fifo, enqueued, delivered, sink, refs, caller>>
      ]_vars

\* a frame with another sample rate was rejected with PUSH and KEEP_REF
\* set, on a filter that had queued a frame before and has not seen eof
C8_Witness ==
    /\ last.op = "submit"
    /\ ~last.null
    /\ last.flags = {AV_BUFFERSRC_FLAG_PUSH, AV_BUFFERSRC_FLAG_KEEP_REF}
    /\ last.ret = EINVAL
    /\ link.type = AVMEDIA_TYPE_AUDIO
    /\ caller.sample_rate # s.sample_rate
    /\ caller.format = s.sample_fmt
    /\ caller.channel_layout = s.channel_layout
    /\ ~s.eof
    /\ enqueued = 1

\* C9 as stated: on a video filter without eof, a submit of a frame whose
\* width, height or pixel format differs from the filter's that succeeds
\* enqueues the frame and takes one from warning_limit.
C9_WarningLimitDecrements ==
    [][ ( /\ last'.op = "submit"
          /\ ~last'.null
          /\ VideoMismatch
          /\ ~s.eof
          /\ last'.ret = OK ) =>
          /\ enqueued' = enqueued + 1
          /\ s'.warning_limit = s.warning_limit - 1
      ]_vars

\* C9 (amended): on a video filter without eof, a submit of a frame whose
\* width, height or pixel format differs from the filter's is not rejected
\* for the difference: it enqueues the frame unless an allocation fails
\* (AVERROR(ENOMEM)), the only other error being the downstream filter's
\* under PUSH, after the frame was enqueued; with the format check on, the
\* difference is logged at the information level; warning_limit stays at
\* the 100 it was initialized to, and the filter's parameters are unchanged.
C9_VideoMismatchAccepted ==
    [][ ( /\ last'.op = "submit"
          /\ ~last'.null
          /\ VideoMismatch
          /\ LayoutConsistent(caller)
          /\ ~s.eof ) =>
          /\ last'.ret \in {OK, ENOMEM, DOWNSTREAM_ERROR}
          /\ last'.ret = DOWNSTREAM_ERROR =>
                 AV_BUFFERSRC_FLAG_PUSH \in last'.flags
          /\ enqueued' = IF last'.ret = ENOMEM THEN enqueued
                         ELSE enqueued + 1
          /\ (last'.ret # ENOMEM /\ CheckedSubmit) => last'.log = "info"
          /\ s'.warning_limit = InitialWarningLimit
          /\ s' = s
      ]_vars

\* a frame of another width was accepted with the format check on, the
\* change was logged, and the frame is in the queue
C9_Witness ==
    /\ last.op = "submit"
    /\ ~last.null
    /\ last.ret = OK
    /\ last.log = "info"
    /\ link.type = AVMEDIA_TYPE_VIDEO
    /\ fifo # <<>>
    /\ fifo[Len(fifo)].frame.width # s.w
    /\ s.warning_limit = InitialWarningLimit

\* C10: a submit with KEEP_REF leaves the producer's AVFrame as it was,
\* whatever it returns; when it returns 0 the filter has enqueued an AVFrame
\* of its own holding one more reference to the same payload; and the
\* payload of the producer's AVFrame stays referenced whatever the queue
\* and the downstream filter do with theirs.
C10_KeepRef ==
    [][ /\ ( /\ last'.op = "submit"
             /\ ~last'.null
             /\ AV_BUFFERSRC_FLAG_KEEP_REF \in last'.flags ) =>
             /\ caller' = caller
             /\ caller'.buf # 0
             /\ last'.ret = OK =>
                  /\ enqueued' = enqueued + 1
                  /\ refs'[caller.buf] = refs[caller.buf] + 1
             /\ (last'.ret = OK /\ last'.requests = 0) =>
                  /\ fifo' = Append(fifo, [id |-> enqueued + 1,
                                           frame |-> caller])
             /\ last'.ret \in {EINVAL, ENOMEM} => refs' = refs
        /\ caller'.buf # 0 => refs'[caller'.buf] >= 1 + sink'[caller'.buf]
      ]_vars

\* the same frame was submitted twice with KEEP_REF, both references were
\* handed downstream and freed there, and the producer still holds the
\* only reference to the payload
C10_Witness ==
    /\ caller.buf = 1
    /\ enqueued = 2
    /\ Len(delivered) = 2
    /\ fifo = <<>>
    /\ sink[1] = 0
    /\ refs[1] = 1
    /\ last.op = "env"


\* C11: when a submit without KEEP_REF returns an error, the producer's
\* AVFrame is as it was before the call and still holds its reference to the
\* payload.
C11_HandleRestoredOnError ==
    [][ ( /\ last'.op = "submit"
          /\ ~last'.null
          /\ AV_BUFFERSRC_FLAG_KEEP_REF \notin last'.flags
          /\ last'.ret # OK ) =>
          /\ caller' = caller
          /\ refs'[caller.buf] >= 1
      ]_vars

\* the references to payload b held in the queue q
QueueRefs(q, b) ==
    Cardinality({ i \in 1..Len(q) : q[i].frame.buf = b })

\* the references to payload b held by the producer's AVFrame c, the queue q
\* and the downstream filter k
Held(c, q, k, b) ==
    (IF c.buf = b THEN 1 ELSE 0) + QueueRefs(q, b) + k[b]

\* C12: for every payload the live references are the producer's, the
\* queue's and the downstream filter's; a submit without KEEP_REF that
\* returns 0 moves the producer's reference to the queue, one with KEEP_REF
\* adds a reference for the queue, a pull that returns 0 moves the head's
\* reference to the downstream filter, and a submit that fails neither
\* leaks a reference nor frees one twice.
C12_OwnershipConservation ==
    [][ /\ \A b \in 1..MaxBufs :
             /\ refs[b] = Held(caller, fifo, sink, b)
             /\ refs'[b] = Held(caller', fifo', sink', b)
        /\ ( /\ last'.op = "submit"
             /\ ~last'.null
             /\ last'.ret = OK ) =>
             LET b == caller.buf
                 keep == AV_BUFFERSRC_FLAG_KEEP_REF \in last'.flags
             IN  /\ caller' = IF keep THEN caller ELSE EmptyFrame
                 /\ refs' = IF keep THEN RefAdd(refs, caller) ELSE refs
                 /\ QueueRefs(fifo', b) + sink'[b]
                      = QueueRefs(fifo, b) + sink[b] + 1
                 /\ last'.requests = 0 =>
                      /\ QueueRefs(fifo', b) = QueueRefs(fifo, b) + 1
                      /\ sink' = sink
        /\ (last'.op = "pull" /\ last'.ret = OK) =>
             LET b == Head(fifo).frame.buf
             IN  /\ QueueRefs(fifo', b) = QueueRefs(fifo, b) - 1
                 /\ sink' = [sink EXCEPT ![b] = @ + 1]
                 /\ refs' = refs
        /\ ( /\ last'.op = "submit"
             /\ last'.ret \in {EINVAL, ENOMEM} ) =>
             UNCHANGED <<refs, fifo, sink, caller>>
      ]_vars

\* a submit with KEEP_REF and PUSH failed in the downstream filter, which
\* freed the frame it was handed: the producer's reference is the only one
C12_Witness ==
    /\ last.op = "submit"
    /\ last.flags = {AV_BUFFERSRC_FLAG_KEEP_REF, AV_BUFFERSRC_FLAG_PUSH}
    /\ last.ret = DOWNSTREAM_ERROR
    /\ caller.buf = 1
    /\ refs[1] = 1
    /\ sink[1] = 0
    /\ fifo = <<>>
    /\ enqueued = 2


\* C13: a submit with PUSH calls the output pad's request_frame once, after
\* the frame was written to the FIFO, and never when a check, an allocation
\* or the write failed; a submit without PUSH never calls it; a negative
\* result of the request is what the submit returns.  The request is
\* request_frame on a queue that is not empty: it takes the head of the queue
\* and hands it to ff_filter_frame, so it returns neither EAGAIN nor
\* AVERROR_EOF, and a submit that returned EAGAIN would have left the
\* submitted frame in the queue.
C13_PushRequestsOnce ==
    [][ (last'.op = "submit" /\ ~last'.null) =>
          LET pushed == /\ AV_BUFFERSRC_FLAG_PUSH \in last'.flags
                        /\ enqueued' = enqueued + 1
              queued == Append(fifo, [id |-> enqueued + 1, frame |-> caller])
          IN  /\ last'.requests = IF pushed THEN 1 ELSE 0
              /\ pushed =>
                   /\ fifo' = Tail(queued)
                   /\ delivered' = Append(delivered, Head(queued).id)
                   /\ last'.ret \in {OK, DOWNSTREAM_ERROR}
                   /\ last'.ret = OK <=>
                        sink' = RefAdd(sink, Head(queued).frame)
                   /\ last'.ret = DOWNSTREAM_ERROR <=> sink' = sink
              /\ last'.ret = EAGAIN =>
                   \E i \in 1..Len(fifo') : fifo'[i].id = enqueued + 1
      ]_vars

\* a submit with PUSH returned the downstream filter's error after its
\* request handed an older frame downstream; the submitted frame is queued
C13_Witness ==
    /\ last.op = "submit"
    /\ AV_BUFFERSRC_FLAG_PUSH \in last.flags
    /\ last.requests = 1
    /\ last.ret = DOWNSTREAM_ERROR
    /\ delivered = <<1>>
    /\ FifoIds = <<2>>

\* C14: poll_frame returns AVERROR_EOF exactly when the queue is empty and
\* eof is set, and the number of queued frames in every other state; it
\* changes nothing.
C14_Poll ==
    [][ last'.op = "poll" =>
          /\ last'.ret = AVERROR_EOF <=> (fifo = <<>> /\ s.eof)
          /\ ~(fifo = <<>> /\ s.eof) => last'.ret = Len(fifo)
          /\ UNCHANGED <<s, fifo, fifo_cap, fifo_live, link, caller, sink,
                         refs, enqueued, delivered>>
      ]_vars

\* poll_frame returned the depth of a queue that still holds two frames
\* after eof was set
C14_Witness ==
    /\ last.op = "poll"
    /\ last.ret = 2
    /\ s.eof
    /\ Len(fifo) = 2


\* C15 as stated: every queued frame has the width, height and pixel format
\* (video) or the sample format, sample rate and channel layout (audio) of
\* the filter's parameters.
C15_QueueMatchesParams ==
    \A i \in 1..Len(fifo) :
      LET f == fifo[i].frame
      IN  IF link.type = AVMEDIA_TYPE_VIDEO
          THEN f.width = s.w /\ f.height = s.h /\ f.format = s.pix_fmt
          ELSE /\ f.format = s.sample_fmt
               /\ f.sample_rate = s.sample_rate
               /\ f.channel_layout = s.channel_layout

\* C15 (amended): a frame enters the queue only through a submit, with the
\* fields the producer gave it, and queued frames are not altered; on an
\* audio filter a frame submitted with the format check on enters the queue
\* only if its sample format, sample rate and channel layout are those of
\* the filter's parameters at that time.  (Frames of a video filter and
\* frames submitted with NO_CHECK_FORMAT may differ from the parameters.)
C15_CheckedAudioMatches ==
    [][ LET new == [id |-> enqueued + 1, frame |-> caller]
        IN  /\ enqueued' # enqueued =>
                 /\ last'.op = "submit"
                 /\ ~last'.null
                 /\ enqueued' = enqueued + 1
                 /\ \/ fifo' # <<>> /\ fifo'[Len(fifo')] = new
                    \/ /\ fifo = <<>>
                       /\ delivered' = Append(delivered, new.id)
                 /\ CheckedSubmit => ~AudioMismatch
            /\ \A i \in 1..Len(fifo') :
                 \/ \E j \in 1..Len(fifo) : fifo'[i] = fifo[j]
                 \/ enqueued' # enqueued /\ fifo'[i] = new
      ]_vars

\* an audio filter has queued two references to a frame that passed the
\* format check
C15_Witness ==
    /\ link.type = AVMEDIA_TYPE_AUDIO
    /\ Len(fifo) = 2
    /\ \A i \in 1..2 :
         /\ fifo[i].frame.sample_rate = s.sample_rate
         /\ fifo[i].frame.format = s.sample_fmt
         /\ fifo[i].frame.channel_layout = s.channel_layout
    /\ last.op = "submit"
    /\ last.flags = {AV_BUFFERSRC_FLAG_KEEP_REF}
    /\ last.ret = OK


\* the parameters of the filter set by init
ParamSet(c) ==
    <<c.time_base, c.frame_rate, c.w, c.h, c.pix_fmt, c.pixel_aspect,
      c.sample_fmt, c.sample_rate, c.channels, c.channel_layout>>

\* C16 as stated: no operation after init changes time_base, frame_rate, w,
\* h, pix_fmt, pixel_aspect, sample_fmt, sample_rate, channels or
\* channel_layout.
C16_ParamsReadOnly ==
    [][ ParamSet(s') = ParamSet(s) ]_vars

\* C16 (amended): no operation after init changes the parameters, except
\* that config_props on an audio filter whose channel_layout is 0 sets
\* channel_layout to the link's channel layout and leaves the other
\* parameters (channels included) as they are.
C16_ParamsChangeOnlyInConfig ==
    [][ IF /\ last'.op = "config_props"
           /\ link.type = AVMEDIA_TYPE_AUDIO
           /\ s.channel_layout = 0
        THEN s' = [s EXCEPT !.channel_layout = link.channel_layout]
        ELSE ParamSet(s') = ParamSet(s)
      ]_vars

\* query_formats offered a channel count because the filter had no channel
\* layout, and config_props has since given it the link's
C16_Witness ==
    /\ last.op = "config_props"
    /\ link.type = AVMEDIA_TYPE_AUDIO
    /\ link.channel_layouts = <<FF_COUNT2LAYOUT(s.channels)>>
    /\ s.channel_layout = NegotiatedLayout
    /\ link.channel_layout = NegotiatedLayout

\* C17 as stated: config_props on an audio filter gives the filter the
\* link's channel layout when the filter's is 0 and otherwise gives the
\* link the filter's; the link's time_base and frame_rate become the
\* filter's for video and audio.
C17_LinkInheritsLayout ==
    [][ last'.op = "config_props" =>
          /\ link.type = AVMEDIA_TYPE_AUDIO =>
               IF s.channel_layout = 0
               THEN s'.channel_layout = link.channel_layout
               ELSE link'.channel_layout = s.channel_layout
          /\ link'.time_base = s.time_base
          /\ link'.frame_rate = s.frame_rate
      ]_vars

\* C17 (amended): config_props on an audio filter gives the filter the
\* link's channel layout when the filter's is 0 and otherwise changes
\* neither; it never writes the link's channel layout.  The link's
\* time_base and frame_rate become the filter's for video and audio, and
\* for video so do w, h and sample_aspect_ratio.
C17_ConfigProps ==
    [][ last'.op = "config_props" =>
          /\ last'.ret = OK
          /\ s' = IF link.type = AVMEDIA_TYPE_AUDIO /\ s.channel_layout = 0
                  THEN [s EXCEPT !.channel_layout = link.channel_layout]
                  ELSE s
          /\ link' = IF link.type = AVMEDIA_TYPE_VIDEO
                     THEN [link EXCEPT !.time_base = s.time_base,
                                       !.frame_rate = s.frame_rate,
                                       !.w = s.w, !.h = s.h,
                                       !.sample_aspect_ratio = s.pixel_aspect]
                     ELSE [link EXCEPT !.time_base = s.time_base,
                                       !.frame_rate = s.frame_rate]
      ]_vars

\* an audio filter with a channel layout was configured on a link without
\* one: the link has the filter's time base and still no channel layout
C17_Witness ==
    /\ last.op = "config_props"
    /\ link.type = AVMEDIA_TYPE_AUDIO
    /\ s.channel_layout = NegotiatedLayout
    /\ link.channel_layout = 0
    /\ link.time_base = s.time_base
    /\ link.time_base = <<1, s.sample_rate>>


\* C18: uninit frees every queued frame once and frees the FIFO: each
\* payload loses exactly the references the queue held, the references left
\* are the producer's and the downstream filter's, which uninit does not
\* touch, and this from any state, with eof set or not.
C18_Uninit ==
    [][ last'.op = "uninit" =>
          /\ fifo' = <<>>
          /\ ~fifo_live'
          /\ \A b \in 1..MaxBufs :
               /\ refs'[b] = refs[b] - QueueRefs(fifo, b)
               /\ refs'[b] = (IF caller.buf = b THEN 1 ELSE 0) + sink[b]
          /\ UNCHANGED <<s, caller, sink, link, enqueued, delivered>>
      ]_vars

\* uninit freed two queued references after eof while the producer holds a
\* third one to the same payload
C18_Witness ==
    /\ last.op = "uninit"
    /\ s.eof
    /\ enqueued = 2
    /\ delivered = <<>>
    /\ caller.buf = 1
    /\ refs[1] = 1
    /\ sink[1] = 0

\* C19: a submit of NULL returns 0 whatever the flags and the state, sets
\* eof, changes nothing else (the queue and nb_failed_requests included) and
\* does not call the output pad's request_frame, with PUSH or not; when eof
\* was set already it leaves the state as it was.
C19_NullSubmit ==
    [][ (last'.op = "submit" /\ last'.null) =>
          /\ last'.ret = OK
          /\ last'.requests = 0
          /\ s' = [s EXCEPT !.eof = TRUE]
          /\ s.eof => s' = s
          /\ UNCHANGED <<fifo, fifo_cap, fifo_live, link, caller, sink, refs,
                         enqueued, delivered>>
      ]_vars

\* NULL was submitted with PUSH when eof was set already, frames were queued
\* and a request had failed before
C19_Witness ==
    /\ last.op = "submit"
    /\ last.null
    /\ last.eof
    /\ AV_BUFFERSRC_FLAG_PUSH \in last.flags
    /\ last.ret = OK
    /\ fifo # <<>>
    /\ s.nb_failed_requests = 1

\* C20: a submit of a frame whose channel layout is set and has another
\* number of channels than the frame returns AVERROR(EINVAL) whatever the
\* flags, the media type and eof, and changes nothing, the producer's frame
\* included; a frame whose channel layout is 0 is not rejected by this test:
\* when its submit returns AVERROR(EINVAL), eof was set or the audio format
\* check found a change.
C20_LayoutChannelsMismatch ==
    [][ (last'.op = "submit" /\ ~last'.null) =>
          /\ ~LayoutConsistent(caller) =>
               /\ last'.ret = EINVAL
               /\ last'.requests = 0
               /\ UNCHANGED <<s, fifo, fifo_cap, caller, sink, refs,
                              enqueued, delivered>>
          /\ (caller.channel_layout = 0 /\ last'.ret = EINVAL) =>
               \/ s.eof
               \/ CheckedSubmit /\ AudioMismatch
      ]_vars

\* a video frame with a channel layout of two channels and one channel was
\* rejected with NO_CHECK_FORMAT and KEEP_REF set, before eof
C20_Witness ==
    /\ last.op = "submit"
    /\ ~last.null
    /\ last.flags = {AV_BUFFERSRC_FLAG_NO_CHECK_FORMAT,
                     AV_BUFFERSRC_FLAG_KEEP_REF}
    /\ last.ret = EINVAL
    /\ last.log = "error"
    /\ link.type = AVMEDIA_TYPE_VIDEO
    /\ ~s.eof
    /\ caller.channel_layout # 0
    /\ av_get_channel_layout_nb_channels(caller.channel_layout)
         # av_frame_get_channels(caller)


\* C21: the request a submit with PUSH makes once its frame is in the FIFO
\* is request_frame of this filter on a queue that is not empty: the oldest
\* queued frame, which is the submitted one only when the queue was empty,
\* is taken from the head and handed to ff_filter_frame, the queue is as
\* long after the call as before it, the submit returns neither EAGAIN nor
\* AVERROR_EOF, and nb_failed_requests and eof are unchanged.
C21_PushIsOwnPull ==
    [][ ( /\ last'.op = "submit"
          /\ ~last'.null
          /\ AV_BUFFERSRC_FLAG_PUSH \in last'.flags
          /\ enqueued' = enqueued + 1 ) =>
          LET new == [id |-> enqueued + 1, frame |-> caller]
              oldest == IF fifo = <<>> THEN new ELSE Head(fifo)
              held == IF AV_BUFFERSRC_FLAG_KEEP_REF \in last'.flags
                      THEN RefAdd(refs, caller) ELSE refs
          IN  /\ Len(fifo') = Len(fifo)
              /\ fifo' = IF fifo = <<>> THEN <<>>
                         ELSE Append(Tail(fifo), new)
              /\ delivered' = Append(delivered, oldest.id)
              /\ oldest.id = enqueued + 1 <=> fifo = <<>>
              /\ last'.ret \notin {EAGAIN, AVERROR_EOF}
              /\ IF last'.ret = OK
                 THEN /\ sink' = RefAdd(sink, oldest.frame)
                      /\ refs' = held
                 ELSE /\ sink' = sink
                      /\ refs' = RefDrop(held, oldest.frame)
              /\ s'.nb_failed_requests = s.nb_failed_requests
              /\ s' = s
      ]_vars

\* a submit with PUSH on a queue holding one frame handed that older frame
\* downstream and left the submitted one queued, after a request had failed
\* on the empty queue
C21_Witness ==
    /\ last.op = "submit"
    /\ AV_BUFFERSRC_FLAG_PUSH \in last.flags
    /\ last.requests = 1
    /\ last.ret = OK
    /\ delivered = <<1>>
    /\ FifoIds = <<2>>
    /\ sink[1] = 1
    /\ s.nb_failed_requests = 1

====
